---- MODULE Spec2Model ----
(***************************************************************************)
(* Clerk -> Convex user synchronisation: the /clerk-webhook HTTP action of *)
(* convex/http.ts and the functions on the users table of convex/users.ts. *)
(***************************************************************************)
EXTENDS Integers, Sequences, FiniteSets, TLC

VARIABLES
    users,            \* the users table: a sequence of documents
    nextId,           \* the _id the next ctx.db.insert hands out
    req,              \* the last webhook request handled (NoReq after any other operation)
    status,           \* the HTTP status that request was answered with
    usersBefore,      \* the users table when that request arrived
    verifyAttempted,  \* whether verifyWebhook was called for that request
    raised,           \* what was thrown inside the handler's try block
    calls,            \* the ctx.runMutation calls that request made, in order
    replay,           \* that request repeats the one handled immediately before it
    obs,              \* the last function call other than a webhook request, and its result
    conc,             \* two webhook requests being handled concurrently
    query,            \* the last render of a component calling useAuthQuery
    hook,             \* a mounted toast wrapper: its options, isPending and execute calls
    table,            \* a DataTable: its props, its useState values and its page
    initials          \* the last call of getInitials: the name and the result

\* the users table and what was observed of the last operation on the backend
vars == <<users, nextId, req, status, usersBefore, verifyAttempted, raised, calls, replay, obs>>

\* what no backend operation touches
sideVars == <<conc, query, hook, table, initials>>

allVars == <<vars, sideVars>>

----------------------------------------------------------------------------
(* Bounds *)

\* ctx.db.insert is enabled while nextId <= MaxId
MaxId == 2

\* execute is called at most MaxExecs times on a mounted wrapper
MaxExecs == 2

\* the rows on one page of a DataTable
PageSize == 2

\* the longest name getInitials is called with
MaxNameLen == 5

----------------------------------------------------------------------------
(* JavaScript values *)

UNDEF == "undefined"
NULL == "null"
\* a property the JSON payload does not carry (reads as undefined)
MISSING == "missing"

Nullish(x) == x \in {UNDEF, NULL, MISSING}

\* a ?? b
Coalesce(a, b) == IF Nullish(a) THEN b ELSE a

\* a value handed to Convex: null and a missing property both arrive as undefined
\* only through `?? undefined`; this is that expression
OrUndefined(a) == Coalesce(a, UNDEF)

HTTP_OK == 200
HTTP_BAD_REQUEST == 400
HTTP_INTERNAL_ERROR == 500

----------------------------------------------------------------------------
(* Input domains *)

ClerkIds == {"u_1", "u_2"}

NoReq == [kind |-> "none"]
NoObs == [op |-> "none"]

\* data.email_addresses: an array of addresses, or a property the payload lacks
Emails(list) == [present |-> TRUE, items |-> list]
NoEmails == [present |-> FALSE, items |-> <<>>]

\* the profile part of a Clerk user payload
UserShapes ==
    { [email_addresses |-> Emails(<<"a@b.com">>), first_name |-> "Jane",
       last_name |-> MISSING, image_url |-> MISSING],
      [email_addresses |-> NoEmails, first_name |-> "Janet",
       last_name |-> MISSING, image_url |-> MISSING],
      [email_addresses |-> Emails(<<>>), first_name |-> NULL,
       last_name |-> "Doe", image_url |-> "i.png"],
      [email_addresses |-> Emails(<<"c@d.com", "a@b.com">>), first_name |-> "Janet",
       last_name |-> "Doe", image_url |-> NULL] }

UserData(id, s) ==
    [id |-> id, email_addresses |-> s.email_addresses, first_name |-> s.first_name,
     last_name |-> s.last_name, image_url |-> s.image_url]

BareData(id) ==
    [id |-> id, email_addresses |-> NoEmails, first_name |-> MISSING,
     last_name |-> MISSING, image_url |-> MISSING]

UpsertTypes == {"user.created", "user.updated"}
UserTypes == UpsertTypes \cup {"user.deleted"}

Events ==
    { [type |-> t, data |-> UserData(id, s)] : t \in UpsertTypes, id \in ClerkIds, s \in UserShapes }
    \cup { [type |-> "user.deleted", data |-> BareData(id)] : id \in ClerkIds \cup {MISSING} }
    \cup { [type |-> "session.created", data |-> BareData("sess_1")] }

\* secret: CLERK_WEBHOOK_SECRET is configured; sigValid: the svix signature matches
Requests ==
    { [kind |-> "webhook", secret |-> s, sigValid |-> v, evt |-> e] :
        s \in BOOLEAN, v \in BOOLEAN, e \in Events }

\* arguments the internal mutations are run with directly
CreateArgs ==
    { [clerkId |-> c, email |-> "a@b.com", firstName |-> "Jane",
       lastName |-> UNDEF, imageUrl |-> UNDEF] : c \in ClerkIds }
    \cup { [clerkId |-> c, email |-> UNDEF, firstName |-> UNDEF,
            lastName |-> "Doe", imageUrl |-> "i.png"] : c \in ClerkIds }

UpdateArgs ==
    { [clerkId |-> c, email |-> UNDEF, firstName |-> "Janet",
       lastName |-> UNDEF, imageUrl |-> UNDEF] : c \in ClerkIds }

DeleteArgs == { [clerkId |-> c] : c \in ClerkIds }

----------------------------------------------------------------------------
(* The users table *)

Db(u, n) == [users |-> u, nextId |-> n]

\* .withIndex("by_clerk_id", q => q.eq("clerkId", cid)): the positions that match
ByClerkId(tbl, cid) == { i \in 1..Len(tbl) : tbl[i].clerkId = cid }

Threw(db) == [threw |-> TRUE, db |-> db]
Done(db) == [threw |-> FALSE, db |-> db]

RemoveAt(tbl, i) == [ j \in 1..(Len(tbl) - 1) |-> IF j < i THEN tbl[j] ELSE tbl[j + 1] ]

\* users.createUser: an unconditional insert
createUser(db, args) ==
    Done(Db(Append(db.users,
                   [_id |-> db.nextId,
                    clerkId |-> args.clerkId,
                    email |-> Coalesce(args.email, ""),
                    firstName |-> OrUndefined(args.firstName),
                    lastName |-> OrUndefined(args.lastName),
                    imageUrl |-> OrUndefined(args.imageUrl)]),
            db.nextId + 1))

\* users.updateUser: patch the record found by clerkId; .unique() throws on two matches
updateUser(db, args) ==
    LET hits == ByClerkId(db.users, args.clerkId) IN
    IF Cardinality(hits) > 1 THEN Threw(db)
    ELSE IF hits = {} THEN Done(db)
    ELSE LET i == CHOOSE h \in hits : TRUE
             user == db.users[i]
         IN Done(Db([db.users EXCEPT ![i] =
                        [user EXCEPT !.email = Coalesce(args.email, user.email),
                                     !.firstName = Coalesce(args.firstName, user.firstName),
                                     !.lastName = Coalesce(args.lastName, user.lastName),
                                     !.imageUrl = Coalesce(args.imageUrl, user.imageUrl)]],
                    db.nextId))

\* users.deleteUser: delete the record found by clerkId; .unique() throws on two matches
deleteUser(db, args) ==
    LET hits == ByClerkId(db.users, args.clerkId) IN
    IF Cardinality(hits) > 1 THEN Threw(db)
    ELSE IF hits = {} THEN Done(db)
    ELSE Done(Db(RemoveAt(db.users, CHOOSE h \in hits : TRUE), db.nextId))

\* the internal mutations convex/users.ts exports, by function path
RegisteredMutations == {"users:createUser", "users:updateUser", "users:deleteUser"}

\* the mutations convex/users.ts exports with `mutation` (callable by a client): none
PublicMutations == {}

\* a client calling a mutation by path: only a public one is run
clientMutation(db, path, args) ==
    IF path \notin PublicMutations THEN Threw(db)
    ELSE IF path = "users:createUser" THEN createUser(db, args)
    ELSE IF path = "users:updateUser" THEN updateUser(db, args)
    ELSE deleteUser(db, args)

----------------------------------------------------------------------------
(* Reading the caller's user: convex/users.ts and convex/lib/auth.ts *)

\* ctx.auth.getUserIdentity(): null, or an identity with a subject
NoIdentity == [present |-> FALSE, subject |-> ""]
Identity(c) == [present |-> TRUE, subject |-> c]
Identities == {NoIdentity} \cup { Identity(c) : c \in ClerkIds }

NoDoc == [_id |-> 0, clerkId |-> "", email |-> "", firstName |-> UNDEF,
          lastName |-> UNDEF, imageUrl |-> UNDEF]

\* what a call ends in: null, a user document, or a throw; and the table it leaves
Returned(kind, user, db) == [kind |-> kind, user |-> user, db |-> db]

\* .withIndex("by_clerk_id", ...).unique(): null on no match, the document on
\* one, a throw on several
Unique(db, cid) ==
    LET hits == ByClerkId(db.users, cid) IN
    IF hits = {} THEN Returned("null", NoDoc, db)
    ELSE IF Cardinality(hits) > 1 THEN Returned("throw", NoDoc, db)
    ELSE Returned("user", db.users[CHOOSE h \in hits : TRUE], db)

\* a faulty getCurrentUser: the index is not restricted to the caller's subject
getCurrentUserAnyRecord(db, identity) ==
    IF ~identity.present THEN Returned("null", NoDoc, db)
    ELSE IF db.users = <<>> THEN Returned("null", NoDoc, db)
    ELSE Returned("user", db.users[1], db)

getCurrentUser(db, identity) ==
    IF ~identity.present THEN Returned("null", NoDoc, db)
    ELSE Unique(db, identity.subject)

getCurrentUserOrThrow(db, identity) ==
    LET r == getCurrentUser(db, identity) IN
    IF r.kind = "null" THEN Returned("throw", NoDoc, r.db) ELSE r

\* the public query users.current
current(db, identity) == getCurrentUser(db, identity)

\* a faulty getAuthContext: a signed-in caller without a record is given one
getAuthContextProvisioning(db, identity) ==
    IF ~identity.present THEN Returned("null", NoDoc, db)
    ELSE LET r == Unique(db, identity.subject) IN
         IF r.kind = "null"
         THEN LET c == createUser(db, [clerkId |-> identity.subject, email |-> UNDEF,
                                        firstName |-> UNDEF, lastName |-> UNDEF,
                                        imageUrl |-> UNDEF])
              IN Returned("user", c.db.users[Len(c.db.users)], c.db)
         ELSE r

getAuthContext(db, identity) ==
    IF ~identity.present THEN Returned("null", NoDoc, db)
    ELSE Unique(db, identity.subject)

\* a faulty requireAuth: the null check is missing
requireAuthUnchecked(db, identity) == getAuthContext(db, identity)

requireAuth(db, identity) ==
    LET r == getAuthContext(db, identity) IN
    IF r.kind = "null" THEN Returned("throw", NoDoc, r.db) ELSE r

ReadFns == {"users:current", "getCurrentUser", "getCurrentUserOrThrow",
            "getAuthContext", "requireAuth"}

CallRead(fn, db, identity) ==
    IF fn = "users:current" THEN current(db, identity)
    ELSE IF fn = "getCurrentUser" THEN getCurrentUser(db, identity)
    ELSE IF fn = "getCurrentUserOrThrow" THEN getCurrentUserOrThrow(db, identity)
    ELSE IF fn = "getAuthContext" THEN getAuthContext(db, identity)
    ELSE requireAuth(db, identity)

----------------------------------------------------------------------------
(* getAuthToken: src/lib/auth.ts and its second definition *)

\* what Clerk's auth() and getToken({template: "convex"}) do for a session:
\* auth is "throws" or "ok"; userId is a clerk id or NULL; token is "throws",
\* NULL or the JWT of that user
Session(a, u, t) == [auth |-> a, userId |-> u, token |-> t]
Sessions ==
    {Session("throws", NULL, NULL), Session("ok", NULL, NULL)}
    \cup { Session("ok", c, t) : c \in ClerkIds, t \in {"throws", NULL, "jwt"} }

TokenResult(kind, subject) == [kind |-> kind, subject |-> subject]

\* src/lib/auth.ts: auth(), the userId test and getToken inside one try block
getAuthToken(s) ==
    IF s.auth = "throws" THEN TokenResult("undefined", "")
    ELSE IF s.userId = NULL THEN TokenResult("undefined", "")
    ELSE IF s.token = "throws" THEN TokenResult("undefined", "")
    ELSE IF s.token = NULL THEN TokenResult("undefined", "")
    ELSE TokenResult("token", s.userId)

\* the "server-only" definition: no try block and no userId test
getAuthTokenServerOnly(s) ==
    IF s.auth = "throws" THEN TokenResult("throw", "")
    ELSE IF s.token = "throws" THEN TokenResult("throw", "")
    ELSE IF s.token = NULL THEN TokenResult("undefined", "")
    ELSE TokenResult("token", s.userId)

TokenImpls == {"lib/auth", "server-only"}

----------------------------------------------------------------------------
(* src/app/(dashboard)/layout.tsx *)

\* how a render of the layout ends: the sidebar rendered with a user, a
\* redirect to /sign-in, or a thrown error; with what users.current answered
Rendered(outcome, token, answer) ==
    [outcome |-> outcome, token |-> token, current |-> answer.kind, user |-> answer.user]

\* fetchQuery(api.users.current, {}, { token }): the identity Convex derives
\* from the token, none when the token is undefined
fetchQueryCurrent(db, token) ==
    current(db, IF token.kind = "token" THEN Identity(token.subject) ELSE NoIdentity)

\* the layout from the token on: the query, the null test, the redirect
LayoutWith(db, token) ==
    IF token.kind = "throw" THEN Rendered("threw", token, Returned("none", NoDoc, db))
    ELSE LET r == fetchQueryCurrent(db, token) IN
         IF r.kind = "throw" THEN Rendered("threw", token, r)
         ELSE IF r.kind = "null" THEN Rendered("redirect /sign-in", token, r)
         ELSE Rendered("sidebar", token, r)

\* a faulty layout: it takes the token from the definition without a try block
DashboardLayoutUnguardedToken(db, s) == LayoutWith(db, getAuthTokenServerOnly(s))

\* DashboardLayout: the token comes from getAuthToken of @/lib/auth
DashboardLayout(db, s) == LayoutWith(db, getAuthToken(s))

----------------------------------------------------------------------------
(* src/hooks/use-auth-query.ts *)

\* useConvexAuth(): {isLoading, isAuthenticated}
AuthState(l, a) == [isLoading |-> l, isAuthenticated |-> a]
AuthStates == { AuthState(l, a) : l \in BOOLEAN, a \in BOOLEAN }

\* the args of a query, and what convexQuery is handed: the args or "skip"
QueryArgs == {"{}", "{id: 1}", "{id: 2}"}
Skip == [skip |-> TRUE, args |-> ""]
Pass(args) == [skip |-> FALSE, args |-> args]

\* a faulty hook: skips only while loading and unauthenticated at once
useAuthQuerySkipsLess(auth, args) ==
    LET shouldSkip == auth.isLoading /\ ~auth.isAuthenticated IN
    IF shouldSkip THEN Skip ELSE Pass(args)

\* useAuthQuery: shouldSkip = isLoading || !isAuthenticated
useAuthQuery(auth, args) ==
    LET shouldSkip == auth.isLoading \/ ~auth.isAuthenticated IN
    IF shouldSkip THEN Skip ELSE Pass(args)

\* the manual pattern of the hook's doc comment:
\* convexQuery(api.something, !isLoading && isAuthenticated ? args : "skip")
manualPattern(auth, args) ==
    IF ~auth.isLoading /\ auth.isAuthenticated THEN Pass(args) ELSE Skip

----------------------------------------------------------------------------
(* src/hooks/use-mutation-with-toast.ts and useActionWithToast *)

\* options: a message is UNDEF when not given; a callback is "absent",
\* "returns" or "throws"
ToastOptions ==
    [successMessage : {UNDEF, "", "Saved"}, errorMessage : {UNDEF, "Failed"},
     onSuccess : {"absent", "returns", "throws"}, onError : {"absent", "returns", "throws"}]

\* how the awaited mutation or action settles: it resolves with a result,
\* rejects with an Error, or rejects with a value that is no Error
Settlements ==
    { [kind |-> "resolved", value |-> "result"],
      [kind |-> "rejected", value |-> "boom"],
      [kind |-> "rejectedNonError", value |-> "oops"] }

\* one call of execute: still awaiting, or ended with what it returned or threw
\* and the toasts and callbacks it produced
Pending == [state |-> "pending", settled |-> "none", value |-> "",
            success |-> <<>>, error |-> <<>>, onSuccess |-> 0, onError |-> 0]

Ended(state, s, value, succ, err, nS, nE) ==
    [state |-> state, settled |-> s.kind, value |-> value,
     success |-> succ, error |-> err, onSuccess |-> nS, onError |-> nE]

\* the catch block: one toast.error, onError, then `throw error`; an onError that
\* throws replaces the error being rethrown
CatchBlock(opts, s, thrown, isError, succ, nS) ==
    LET errorMsg == IF isError THEN thrown ELSE "Unknown error"
        shown == <<Coalesce(opts.errorMessage, errorMsg)>>
    IN IF opts.onError = "absent" THEN Ended("threw", s, thrown, succ, shown, nS, 0)
       ELSE IF opts.onError = "returns" THEN Ended("threw", s, thrown, succ, shown, nS, 1)
       ELSE Ended("threw", s, "onError threw", succ, shown, nS, 1)

\* the body of execute after `await mutationFn(args)` settles (use-mutation-with-toast.ts)
executeSettle(opts, s) ==
    IF s.kind = "resolved"
    THEN LET succ == IF opts.successMessage \notin {UNDEF, ""}
                     THEN <<opts.successMessage>> ELSE <<>>
         IN IF opts.onSuccess = "absent" THEN Ended("returned", s, s.value, succ, <<>>, 0, 0)
            ELSE IF opts.onSuccess = "returns" THEN Ended("returned", s, s.value, succ, <<>>, 1, 0)
            ELSE CatchBlock(opts, s, "onSuccess threw", TRUE, succ, 1)
    ELSE CatchBlock(opts, s, s.value, s.kind = "rejected", <<>>, 0)

\* the same body in useActionWithToast, after `await actionFn(args)` settles
actionExecuteSettle(opts, s) ==
    IF s.kind = "resolved"
    THEN LET succ == IF opts.successMessage \notin {UNDEF, ""}
                     THEN <<opts.successMessage>> ELSE <<>>
         IN IF opts.onSuccess = "absent" THEN Ended("returned", s, s.value, succ, <<>>, 0, 0)
            ELSE IF opts.onSuccess = "returns" THEN Ended("returned", s, s.value, succ, <<>>, 1, 0)
            ELSE CatchBlock(opts, s, "onSuccess threw", TRUE, succ, 1)
    ELSE CatchBlock(opts, s, s.value, s.kind = "rejected", <<>>, 0)

Wrappers == {"useMutationWithToast", "useActionWithToast"}

NoHook == [wrapper |-> "none", opts |-> [successMessage |-> UNDEF, errorMessage |-> UNDEF,
                                          onSuccess |-> "absent", onError |-> "absent"],
           isPending |-> FALSE, execs |-> <<>>]

\* no component renders useAuthQuery
NoQuery == [mounted |-> FALSE, auth |-> AuthState(TRUE, FALSE), args |-> "", handed |-> Skip]

----------------------------------------------------------------------------
(* src/components/shared/data-table *)

\* the column ids of the columns prop
Columns == <<"name", "email">>
ColumnIds == {Columns[i] : i \in 1..Len(Columns)}

Row(n, e) == [name |-> n, email |-> e]

\* the data prop: the rows a page hands the table
DataSets == { <<Row("b", "x"), Row("a", "y"), Row("c", "x"), Row("a", "x")>>,
              <<Row("b", "y")>> }

\* VisibilityState: a record from column id to boolean; {} is the empty record
NoVisibility == [c \in {} |-> TRUE]
getIsVisible(columnVisibility, c) ==
    IF c \in DOMAIN columnVisibility THEN columnVisibility[c] ELSE TRUE

\* the three useState values of one mount
View(sorting, columnFilters, columnVisibility) ==
    [sorting |-> sorting, columnFilters |-> columnFilters, columnVisibility |-> columnVisibility]

\* a faulty table: a mount starts from the view the previous mount ended with
initialViewRestored(previous) == previous

\* useState([]), useState([]), useState({}): the initial values of a mount,
\* whatever view the previous mount ended with
initialView(previous) == View(<<>>, <<>>, NoVisibility)

\* getFilteredRowModel: the rows matching every column filter
getFilteredRowModel(data, columnFilters) ==
    LET Matches(r) == \A i \in 1..Len(columnFilters) :
                          r[columnFilters[i].id] = columnFilters[i].value
    IN SelectSeq(data, Matches)

\* the alphabetical order of the cell values
CellOrder == <<"a", "b", "c", "x", "y">>
Ord(v) == CHOOSE i \in 1..Len(CellOrder) : CellOrder[i] = v

\* r goes before s under the sorting
Before(r, s, sort) ==
    IF sort.desc THEN Ord(r[sort.id]) > Ord(s[sort.id]) ELSE Ord(r[sort.id]) < Ord(s[sort.id])

RECURSIVE InsertRow(_, _, _)
InsertRow(sorted, r, sort) ==
    IF sorted = <<>> THEN <<r>>
    ELSE IF Before(r, Head(sorted), sort) THEN <<r>> \o sorted
    ELSE <<Head(sorted)>> \o InsertRow(Tail(sorted), r, sort)

RECURSIVE SortRows(_, _)
SortRows(rows, sort) ==
    IF rows = <<>> THEN <<>>
    ELSE InsertRow(SortRows(SubSeq(rows, 1, Len(rows) - 1), sort), rows[Len(rows)], sort)

\* getSortedRowModel: a new, stably sorted list of the filtered rows
getSortedRowModel(rows, sorting) ==
    IF sorting = <<>> THEN rows ELSE SortRows(rows, sorting[1])

\* getPageCount, getCanNextPage, getCanPreviousPage
getPageCount(t) ==
    (Len(getFilteredRowModel(t.data, t.view.columnFilters)) + PageSize - 1) \div PageSize
getCanNextPage(t) == t.pageIndex < getPageCount(t) - 1
getCanPreviousPage(t) == t.pageIndex > 0

\* table.getRowModel().rows: the page of the sorted, filtered rows
getRowModel(t) ==
    LET rows == getSortedRowModel(getFilteredRowModel(t.data, t.view.columnFilters), t.view.sorting)
        from == t.pageIndex * PageSize + 1
        to == IF from + PageSize - 1 < Len(rows) THEN from + PageSize - 1 ELSE Len(rows)
    IN SubSeq(rows, from, to)

\* column.getIsSorted(): "asc", "desc" or false
getIsSorted(sorting, c) ==
    IF sorting # <<>> /\ sorting[1].id = c
    THEN (IF sorting[1].desc THEN "desc" ELSE "asc") ELSE "false"

\* no DataTable is mounted and none has been
NoTable == [mounted |-> FALSE, fresh |-> FALSE, data |-> <<>>, columns |-> <<>>,
            given |-> [data |-> <<>>, columns |-> <<>>], filterColumn |-> "",
            view |-> View(<<>>, <<>>, NoVisibility), pageIndex |-> 0,
            previous |-> View(<<>>, <<>>, NoVisibility)]

----------------------------------------------------------------------------
(* src/utils/user-utils.ts *)

\* a string is a sequence of characters (UTF-16 units); the names tried are
\* made of these
Chars == {" ", "a", "é", "B", "ß"}

RECURSIVE StringsUpTo(_)
StringsUpTo(n) ==
    IF n = 0 THEN {<<>>}
    ELSE LET shorter == StringsUpTo(n - 1) IN
         shorter \cup { Append(s, c) : s \in {t \in shorter : Len(t) = n - 1}, c \in Chars }

Names == StringsUpTo(MaxNameLen)

\* String.prototype.toUpperCase on one character: the upper-case form of "ß"
\* is the two characters "SS"
UpperChar(c) ==
    CASE c = "a" -> <<"A">>
      [] c = "é" -> <<"É">>
      [] c = "ß" -> <<"S", "S">>
      [] OTHER -> <<c>>

RECURSIVE toUpperCase(_)
toUpperCase(s) == IF s = <<>> THEN <<>> ELSE UpperChar(Head(s)) \o toUpperCase(Tail(s))

\* name.split(" "): the pieces between the spaces, empty pieces included
RECURSIVE split(_)
split(s) ==
    IF \A i \in 1..Len(s) : s[i] # " " THEN <<s>>
    ELSE LET k == CHOOSE i \in 1..Len(s) : s[i] = " " /\ \A j \in 1..(i - 1) : s[j] # " "
         IN <<SubSeq(s, 1, k - 1)>> \o split(SubSeq(s, k + 1, Len(s)))

\* .map((word) => word[0]).filter(Boolean).join(""): the first characters of
\* the pieces that have one
RECURSIVE firstChars(_)
firstChars(words) ==
    IF words = <<>> THEN <<>>
    ELSE (IF Head(words) = <<>> THEN <<>> ELSE <<Head(words)[1]>>) \o firstChars(Tail(words))

\* .slice(0, n)
slice(s, n) == SubSeq(s, 1, IF Len(s) < n THEN Len(s) ELSE n)

\* getInitials: first characters of all words, joined, upper-cased, cut to two
getInitials(name) == slice(toUpperCase(firstChars(split(name))), 2)

\* getInitials has not been called
NoInitials == [called |-> FALSE, name |-> <<>>, result |-> <<>>]

----------------------------------------------------------------------------
(* convex/http.ts *)

\* a faulty reference: created/updated events wired to the unconditional insert
UpsertRefAsCreate == "users:createUser"

\* the function references handleUserEvent dispatches to
UpsertRef == "users:upsertFromClerk"
DeleteRef == "users:deleteFromClerk"

\* ctx.runMutation(ref, args): runs the registered function of that path in one
\* transaction; a path that names no registered function is rejected
runMutation(db, ref, args) ==
    IF ref \notin RegisteredMutations THEN Threw(db)
    ELSE IF ref = "users:createUser" THEN createUser(db, args)
    ELSE IF ref = "users:updateUser" THEN updateUser(db, args)
    ELSE deleteUser(db, args)

\* what a dispatch step reports: the error thrown ("none" when it returned),
\* the table afterwards and the runMutation calls made
Outcome(err, db, cs) == [raised |-> err, db |-> db, calls |-> cs]

Call(ref, args, r) == [fn |-> ref, args |-> args, threw |-> r.threw]

\* evt.data.email_addresses[0]?.email_address ?? ""
FirstEmail(emails) == IF Len(emails.items) = 0 THEN "" ELSE emails.items[1]

handleUserEvent(db, evt) ==
    IF evt.type \in UpsertTypes
    THEN IF ~evt.data.email_addresses.present
         THEN Outcome("TypeError", db, <<>>)
         ELSE LET args == [clerkId |-> evt.data.id,
                           email |-> FirstEmail(evt.data.email_addresses),
                           firstName |-> OrUndefined(evt.data.first_name),
                           lastName |-> OrUndefined(evt.data.last_name),
                           imageUrl |-> OrUndefined(evt.data.image_url)]
                  r == runMutation(db, UpsertRef, args)
              IN Outcome(IF r.threw THEN "mutation" ELSE "none", r.db,
                         <<Call(UpsertRef, args, r)>>)
    ELSE IF evt.type = "user.deleted" /\ ~Nullish(evt.data.id)
    THEN LET args == [clerkId |-> evt.data.id]
             r == runMutation(db, DeleteRef, args)
         IN Outcome(IF r.threw THEN "mutation" ELSE "none", r.db,
                    <<Call(DeleteRef, args, r)>>)
    ELSE Outcome("none", db, <<>>)

\* a faulty dispatch: an unhandled event type is thrown instead of logged
processWebhookEventThrowOnUnknown(db, evt) ==
    IF evt.type \in UserTypes THEN handleUserEvent(db, evt)
    ELSE Outcome("unhandled", db, <<>>)

\* the switch on evt.type; the default branch only logs
processWebhookEvent(db, evt) ==
    IF evt.type \in UserTypes THEN handleUserEvent(db, evt)
    ELSE Outcome("none", db, <<>>)

\* verifyWebhook(request, {signingSecret}): the event, or a throw on a bad signature
verifyWebhook(r) == IF r.sigValid THEN [threw |-> FALSE, evt |-> r.evt] ELSE [threw |-> TRUE]

Response(st, db, attempted, err, cs) ==
    [status |-> st, db |-> db, verifyAttempted |-> attempted, raised |-> err, calls |-> cs]

\* a faulty handler: the payload is dispatched without its signature being checked
HandlerNoVerify(db, r) ==
    IF ~r.secret THEN Response(HTTP_INTERNAL_ERROR, db, FALSE, "none", <<>>)
    ELSE LET p == processWebhookEvent(db, r.evt) IN
         IF p.raised # "none"
         THEN Response(HTTP_BAD_REQUEST, p.db, FALSE, p.raised, p.calls)
         ELSE Response(HTTP_OK, p.db, FALSE, "none", p.calls)

\* a faulty handler: the secret is looked at only after verification
HandlerSecretLate(db, r) ==
    LET v == verifyWebhook(r) IN
    IF v.threw THEN Response(HTTP_BAD_REQUEST, db, TRUE, "verify", <<>>)
    ELSE IF ~r.secret THEN Response(HTTP_INTERNAL_ERROR, db, TRUE, "none", <<>>)
    ELSE LET p == processWebhookEvent(db, v.evt) IN
         IF p.raised # "none"
         THEN Response(HTTP_BAD_REQUEST, p.db, TRUE, p.raised, p.calls)
         ELSE Response(HTTP_OK, p.db, TRUE, "none", p.calls)

\* a faulty handler: the try block ends after verifyWebhook, so a dispatch error escapes
\* the handler (status 0: no Response is built)
HandlerCatchVerifyOnly(db, r) ==
    IF ~r.secret THEN Response(HTTP_INTERNAL_ERROR, db, FALSE, "none", <<>>)
    ELSE LET v == verifyWebhook(r) IN
         IF v.threw THEN Response(HTTP_BAD_REQUEST, db, TRUE, "verify", <<>>)
         ELSE LET p == processWebhookEvent(db, v.evt) IN
              IF p.raised # "none"
              THEN Response(0, p.db, TRUE, p.raised, p.calls)
              ELSE Response(HTTP_OK, p.db, TRUE, "none", p.calls)

\* the POST /clerk-webhook handler
Handler(db, r) ==
    IF ~r.secret THEN Response(HTTP_INTERNAL_ERROR, db, FALSE, "none", <<>>)
    ELSE LET v == verifyWebhook(r) IN
         IF v.threw THEN Response(HTTP_BAD_REQUEST, db, TRUE, "verify", <<>>)
         ELSE LET p == processWebhookEvent(db, v.evt) IN
              IF p.raised # "none"
              THEN Response(HTTP_BAD_REQUEST, p.db, TRUE, p.raised, p.calls)
              ELSE Response(HTTP_OK, p.db, TRUE, "none", p.calls)

\* http.route({path, method, handler}): the one route the router holds
WebhookPath == "/clerk-webhook"
Routes == { [path |-> WebhookPath, method |-> "POST"] }

\* the endpoint the README has the user register in the Clerk dashboard
ReadmeWebhookPath == "/clerk-users-webhook"

\* the router's lookup: an exact match on path and method
Routed(path, method) == [path |-> path, method |-> method] \in Routes

\* a request no route matches: the platform answers not-found and runs no handler
Unrouted(path, evt) == [kind |-> "unrouted", path |-> path, evt |-> evt]

----------------------------------------------------------------------------
(* State machine *)

\* no concurrent deliveries are being handled
ConcIdle == [phase |-> "idle", start |-> Db(<<>>, 1), procs |-> <<>>]

\* the state after construction, apart from the argument of getInitials
InitState ==
    /\ users = <<>>
    /\ nextId = 1
    /\ req = NoReq
    /\ status = 0
    /\ usersBefore = <<>>
    /\ verifyAttempted = FALSE
    /\ raised = "none"
    /\ calls = <<>>
    /\ replay = FALSE
    /\ obs = NoObs
    /\ conc = ConcIdle
    /\ query = NoQuery
    /\ hook = NoHook
    /\ table = NoTable

Init == InitState /\ initials = NoInitials

\* the same state, with the name getInitials is about to be called with
InitNames == InitState /\ \E n \in Names : initials = [called |-> FALSE, name |-> n, result |-> <<>>]

\* a POST to /clerk-webhook is handled
ClerkWebhook(r) ==
    LET res == Handler(Db(users, nextId), r) IN
    /\ Routed(WebhookPath, "POST")
    /\ res.db.nextId <= MaxId + 1
    /\ users' = res.db.users
    /\ nextId' = res.db.nextId
    /\ req' = r
    /\ status' = res.status
    /\ usersBefore' = users
    /\ verifyAttempted' = res.verifyAttempted
    /\ raised' = res.raised
    /\ calls' = res.calls
    /\ replay' = (req = r)
    /\ obs' = NoObs
    /\ UNCHANGED sideVars

\* an internal mutation is run directly (dashboard, CLI or another server function)
Direct(r) ==
    /\ users' = r.db.users
    /\ nextId' = r.db.nextId
    /\ req' = NoReq
    /\ status' = 0
    /\ usersBefore' = r.db.users
    /\ verifyAttempted' = FALSE
    /\ raised' = "none"
    /\ calls' = <<>>
    /\ replay' = FALSE
    /\ obs' = NoObs
    /\ UNCHANGED sideVars

\* a signed POST to a path the router holds no route for
PostUnrouted(path, evt) ==
    /\ ~Routed(path, "POST")
    /\ req' = Unrouted(path, evt)
    /\ status' = 0
    /\ usersBefore' = users
    /\ verifyAttempted' = FALSE
    /\ raised' = "none"
    /\ calls' = <<>>
    /\ replay' = FALSE
    /\ obs' = NoObs
    /\ UNCHANGED <<users, nextId>>
    /\ UNCHANGED sideVars

\* a call that is no webhook request: the request observation is cleared and
\* the table the call leaves is stored
Called(db, o) ==
    /\ db.nextId <= MaxId + 1
    /\ users' = db.users
    /\ nextId' = db.nextId
    /\ req' = NoReq
    /\ status' = 0
    /\ usersBefore' = users
    /\ verifyAttempted' = FALSE
    /\ raised' = "none"
    /\ calls' = <<>>
    /\ replay' = FALSE
    /\ obs' = o
    /\ UNCHANGED sideVars

\* a query or a helper reading the caller's user is run for an identity
Read(fn, identity) ==
    LET r == CallRead(fn, Db(users, nextId), identity) IN
    Called(r.db, [op |-> fn, identity |-> identity, kind |-> r.kind, user |-> r.user])

\* a client calls a mutation on users by its path
ClientCall(path, args) ==
    LET r == clientMutation(Db(users, nextId), path, args) IN
    Called(r.db, [op |-> "client", path |-> path, threw |-> r.threw])

\* a server component asks for the Convex token of a session
GetAuthToken(impl, s) ==
    LET t == IF impl = "lib/auth" THEN getAuthToken(s) ELSE getAuthTokenServerOnly(s) IN
    Called(Db(users, nextId), [op |-> "getAuthToken", impl |-> impl, session |-> s, result |-> t])

\* the dashboard layout is rendered for a session
RenderDashboardLayout(s) ==
    LET r == DashboardLayout(Db(users, nextId), s) IN
    Called(Db(users, nextId), [op |-> "DashboardLayout", session |-> s, token |-> r.token,
                               current |-> r.current, outcome |-> r.outcome, user |-> r.user])

RunCreateUser(args) ==
    /\ nextId <= MaxId
    /\ Direct(createUser(Db(users, nextId), args))

RunUpdateUser(args) == Direct(updateUser(Db(users, nextId), args))

RunDeleteUser(args) == Direct(deleteUser(Db(users, nextId), args))

WebhookNext == \E r \in Requests : ClerkWebhook(r)

Next ==
    \/ \E r \in Requests : ClerkWebhook(r)
    \/ \E a \in CreateArgs : RunCreateUser(a)
    \/ \E a \in UpdateArgs : RunUpdateUser(a)
    \/ \E a \in DeleteArgs : RunDeleteUser(a)
    \/ \E p \in {WebhookPath, ReadmeWebhookPath}, e \in Events : PostUnrouted(p, e)

\* the functions server code and clients call, on tables the internal
\* mutations have filled
ApiNext ==
    \/ \E a \in CreateArgs : RunCreateUser(a)
    \/ \E a \in UpdateArgs : RunUpdateUser(a)
    \/ \E a \in DeleteArgs : RunDeleteUser(a)
    \/ \E f \in ReadFns, i \in Identities : Read(f, i)
    \/ \E a \in CreateArgs : ClientCall("users:createUser", a)
    \/ \E a \in UpdateArgs : ClientCall("users:updateUser", a)
    \/ \E a \in DeleteArgs : ClientCall("users:deleteUser", a)
    \/ \E i \in TokenImpls, s \in Sessions : GetAuthToken(i, s)
    \/ \E s \in Sessions : RenderDashboardLayout(s)

\* every write of the users table and every request to the HTTP router
Spec == Init /\ [][Next]_allVars

\* reads, client calls and token fetches
SpecApi == Init /\ [][ApiNext]_allVars

\* webhook deliveries only, from the empty table
SpecWebhook == Init /\ [][WebhookNext]_allVars

----------------------------------------------------------------------------
(* Two webhook deliveries handled concurrently *)

\* the verified events for one clerk id that are delivered concurrently
ConcEvents(id) ==
    { e \in Events :
        /\ e.data.id = id
        /\ \/ e.type = "user.deleted"
           \/ e.type = "user.created" /\ e.data.first_name = "Jane"
           \/ e.type = "user.updated" /\ e.data.last_name = "Doe"
                /\ e.data.first_name = "Janet" }

Proc(pc, evt, err, st) == [pc |-> pc, evt |-> evt, raised |-> err, status |-> st]

\* two verified requests for the same clerk id arrive; each gets its own handler run
Deliver(e1, e2) ==
    /\ conc.phase = "idle"
    /\ conc' = [phase |-> "running", start |-> Db(users, nextId),
                procs |-> <<Proc("start", e1, "none", 0), Proc("start", e2, "none", 0)>>]
    /\ UNCHANGED <<vars, query, hook, table, initials>>

\* await verifyWebhook(request, ...) of run p returns the event
ConcVerify(p) ==
    /\ conc.phase = "running"
    /\ conc.procs[p].pc = "start"
    /\ conc' = [conc EXCEPT !.procs[p].pc = "verified"]
    /\ UNCHANGED <<vars, query, hook, table, initials>>

\* await processWebhookEvent(ctx, evt) of run p: its ctx.runMutation is one transaction
ConcDispatch(p) ==
    LET res == processWebhookEvent(Db(users, nextId), conc.procs[p].evt) IN
    /\ conc.phase = "running"
    /\ conc.procs[p].pc = "verified"
    /\ res.db.nextId <= MaxId + 1
    /\ users' = res.db.users
    /\ nextId' = res.db.nextId
    /\ conc' = [conc EXCEPT !.procs[p].pc = "dispatched", !.procs[p].raised = res.raised]
    /\ UNCHANGED <<req, status, usersBefore, verifyAttempted, raised, calls, replay, obs>>
    /\ UNCHANGED <<query, hook, table, initials>>

\* run p returns its Response
ConcRespond(p) ==
    /\ conc.phase = "running"
    /\ conc.procs[p].pc = "dispatched"
    /\ conc' = [conc EXCEPT !.procs[p].pc = "done",
                            !.procs[p].status = IF conc.procs[p].raised # "none"
                                                THEN HTTP_BAD_REQUEST ELSE HTTP_OK]
    /\ UNCHANGED <<vars, query, hook, table, initials>>

ConcNext ==
    \/ \E a \in CreateArgs : conc.phase = "idle" /\ RunCreateUser(a)
    \/ \E a \in UpdateArgs : conc.phase = "idle" /\ RunUpdateUser(a)
    \/ \E a \in DeleteArgs : conc.phase = "idle" /\ RunDeleteUser(a)
    \/ \E id \in ClerkIds : \E e1 \in ConcEvents(id), e2 \in ConcEvents(id) : Deliver(e1, e2)
    \/ \E p \in 1..2 : ConcVerify(p)
    \/ \E p \in 1..2 : ConcDispatch(p)
    \/ \E p \in 1..2 : ConcRespond(p)

\* two concurrent deliveries for one clerk id, on any table the internal mutations build
SpecConc == Init /\ [][ConcNext]_allVars

----------------------------------------------------------------------------
(* A client component using the hooks *)

\* a component calling useAuthQuery renders: on mount, on a change of the
\* Convex auth state and on a change of its args
RenderAuthQuery(auth, args) ==
    /\ query' = [mounted |-> TRUE, auth |-> auth, args |-> args,
                 handed |-> useAuthQuery(auth, args)]
    /\ UNCHANGED <<vars, conc, hook, table, initials>>

\* a component mounts one of the wrappers with its options
MountHook(w, opts) ==
    /\ hook.wrapper = "none"
    /\ hook' = [wrapper |-> w, opts |-> opts, isPending |-> FALSE, execs |-> <<>>]
    /\ UNCHANGED <<vars, conc, query, table, initials>>

\* execute(args) is called: setIsPending(true), then the await
Execute ==
    /\ hook.wrapper # "none"
    /\ Len(hook.execs) < MaxExecs
    /\ hook' = [hook EXCEPT !.isPending = TRUE, !.execs = Append(@, Pending)]
    /\ UNCHANGED <<vars, conc, query, table, initials>>

\* the awaited call of execute number i settles; the rest of execute runs,
\* ending in the finally block's setIsPending(false)
Settle(i, s) ==
    /\ i \in 1..Len(hook.execs)
    /\ hook.execs[i].state = "pending"
    /\ hook' = [hook EXCEPT
                  !.isPending = FALSE,
                  !.execs[i] = IF hook.wrapper = "useMutationWithToast"
                               THEN executeSettle(hook.opts, s)
                               ELSE actionExecuteSettle(hook.opts, s)]
    /\ UNCHANGED <<vars, conc, query, table, initials>>

ClientNext ==
    \/ \E a \in AuthStates, q \in QueryArgs : RenderAuthQuery(a, q)
    \/ \E w \in Wrappers, o \in ToastOptions : MountHook(w, o)
    \/ Execute
    \/ \E i \in 1..MaxExecs, s \in Settlements : Settle(i, s)

\* the hooks of a client component
SpecClient == Init /\ [][ClientNext]_allVars

----------------------------------------------------------------------------
(* A page showing a DataTable *)

TableOnly == UNCHANGED <<vars, conc, query, hook, initials>>

\* a page mounts <DataTable data columns filterColumn />
MountTable(data, filterColumn) ==
    /\ ~table.mounted
    /\ table' = [mounted |-> TRUE, fresh |-> TRUE, data |-> data, columns |-> Columns,
                 given |-> [data |-> data, columns |-> Columns],
                 filterColumn |-> filterColumn,
                 view |-> initialView(table.previous), pageIndex |-> 0,
                 previous |-> table.previous]
    /\ TableOnly

\* the page unmounts the table: React discards its state
UnmountTable ==
    /\ table.mounted
    /\ table' = [NoTable EXCEPT !.previous = table.view]
    /\ TableOnly

\* a header button: column.toggleSorting(column.getIsSorted() === "asc")
ToggleSorting(c) ==
    /\ table.mounted
    /\ table' = [table EXCEPT
                   !.fresh = FALSE,
                   !.view.sorting = <<[id |-> c, desc |-> getIsSorted(table.view.sorting, c) = "asc"]>>,
                   !.pageIndex = 0]
    /\ TableOnly

\* the search input, uncontrolled: table.getColumn(filterColumn)?.setFilterValue(value);
\* an empty value removes the filter
SetFilterValue(value) ==
    /\ table.mounted
    /\ table' = [table EXCEPT
                   !.fresh = FALSE,
                   !.view.columnFilters = IF value = "" THEN <<>>
                                          ELSE <<[id |-> table.filterColumn, value |-> value]>>,
                   !.pageIndex = 0]
    /\ TableOnly

\* the Columns menu: column.toggleVisibility(!!value)
ToggleVisibility(c, value) ==
    /\ table.mounted
    /\ table' = [table EXCEPT
                   !.fresh = FALSE,
                   !.view.columnVisibility =
                       [d \in (DOMAIN table.view.columnVisibility) \cup {c} |->
                           IF d = c THEN value ELSE table.view.columnVisibility[d]]]
    /\ TableOnly

\* table.nextPage(), enabled while getCanNextPage()
NextPage ==
    /\ table.mounted
    /\ getCanNextPage(table)
    /\ table' = [table EXCEPT !.fresh = FALSE, !.pageIndex = @ + 1]
    /\ TableOnly

\* table.previousPage(), enabled while getCanPreviousPage()
PreviousPage ==
    /\ table.mounted
    /\ getCanPreviousPage(table)
    /\ table' = [table EXCEPT !.fresh = FALSE, !.pageIndex = @ - 1]
    /\ TableOnly

TableNext ==
    \/ \E d \in DataSets, f \in ColumnIds : MountTable(d, f)
    \/ UnmountTable
    \/ \E c \in ColumnIds : ToggleSorting(c)
    \/ \E v \in {"", "a", "b"} : SetFilterValue(v)
    \/ \E c \in ColumnIds, v \in BOOLEAN : ToggleVisibility(c, v)
    \/ NextPage
    \/ PreviousPage

\* a page mounting, using and unmounting a DataTable
SpecTable == Init /\ [][TableNext]_allVars

----------------------------------------------------------------------------
(* Calls of getInitials *)

GetInitials ==
    /\ ~initials.called
    /\ initials' = [initials EXCEPT !.called = TRUE, !.result = getInitials(initials.name)]
    /\ UNCHANGED <<vars, conc, query, hook, table>>

\* getInitials called on every name
SpecInitials == InitNames /\ [][GetInitials]_allVars


----------------------------------------------------------------------------
(* Properties *)

IsWebhook == req.kind = "webhook"

\* the last request passed the secret check and signature verification
Verified == IsWebhook /\ req.secret /\ req.sigValid

EvtType == req.evt.type
EvtId == req.evt.data.id

SomeCallThrew == \E i \in 1..Len(calls) : calls[i].threw

C2_UpsertLeavesExactlyOne ==
    (Verified /\ EvtType \in UpsertTypes)
        => Cardinality(ByClerkId(users, EvtId)) = 1

ExpectedEmail(data) ==
    IF data.email_addresses.present /\ Len(data.email_addresses.items) > 0
    THEN data.email_addresses.items[1] ELSE ""

ExpectedField(v) == IF v \in {NULL, MISSING} THEN UNDEF ELSE v

\* C4: after a verified user.created event for an id that had no record, the
\* stored record carries clerkId = data.id, email = the first address ("" when
\* there is none) and firstName, lastName, imageUrl from the payload, absent
\* when null or missing.
C4_CreatedStoresPayload ==
    (Verified /\ EvtType = "user.created" /\ ByClerkId(usersBefore, EvtId) = {})
        => \E i \in ByClerkId(users, EvtId) :
              /\ users[i].email = ExpectedEmail(req.evt.data)
              /\ users[i].firstName = ExpectedField(req.evt.data.first_name)
              /\ users[i].lastName = ExpectedField(req.evt.data.last_name)
              /\ users[i].imageUrl = ExpectedField(req.evt.data.image_url)

\* the value a field has after an update that carries v (keeps old when not carried)
AfterUpdate(v, old) == IF v \in {NULL, MISSING} THEN old ELSE v

\* C5: a verified user.updated event for an existing user changes exactly the
\* fields it carries; email, lastName and imageUrl keep their values when the
\* event does not carry them.
C5_UpdateChangesOnlySentFields ==
    (Verified /\ EvtType = "user.updated" /\ Cardinality(ByClerkId(usersBefore, EvtId)) = 1)
        => \E i \in ByClerkId(users, EvtId) : \E j \in ByClerkId(usersBefore, EvtId) :
              /\ users[i].email =
                    (IF req.evt.data.email_addresses.present
                        /\ Len(req.evt.data.email_addresses.items) > 0
                     THEN req.evt.data.email_addresses.items[1]
                     ELSE usersBefore[j].email)
              /\ users[i].firstName = AfterUpdate(req.evt.data.first_name, usersBefore[j].firstName)
              /\ users[i].lastName = AfterUpdate(req.evt.data.last_name, usersBefore[j].lastName)
              /\ users[i].imageUrl = AfterUpdate(req.evt.data.image_url, usersBefore[j].imageUrl)

\* C6: after a verified user.deleted event for X no users record has clerkId X,
\* and handling the same event again changes nothing.
C6_DeletedLeavesNone ==
    (Verified /\ EvtType = "user.deleted" /\ EvtId \in ClerkIds)
        => /\ ByClerkId(users, EvtId) = {}
           /\ (replay => users = usersBefore)

\* C7: a request whose signature does not verify is answered 400, runs no
\* mutation and leaves the users table as it was.
C7_BadSignatureRejected ==
    (IsWebhook /\ req.secret /\ ~req.sigValid)
        => /\ status = HTTP_BAD_REQUEST
           /\ calls = <<>>
           /\ users = usersBefore

C7_Witness ==
    /\ IsWebhook /\ req.secret /\ ~req.sigValid
    /\ EvtType = "user.deleted"
    /\ ByClerkId(usersBefore, EvtId) # {}
    /\ status = HTTP_BAD_REQUEST

\* C8: a verified event of a type other than user.created, user.updated and
\* user.deleted runs no mutation, leaves the users table as it was and is
\* answered 200.
C8_UnknownTypeIgnored ==
    (Verified /\ EvtType \notin UserTypes)
        => /\ calls = <<>>
           /\ users = usersBefore
           /\ status = HTTP_OK

C8_Witness ==
    /\ Verified
    /\ EvtType = "session.created"
    /\ users # <<>>
    /\ status = HTTP_OK

\* C9: with CLERK_WEBHOOK_SECRET not configured every POST is answered 500
\* before verification is attempted, and no mutation is run.
C9_MissingSecretIs500 ==
    (IsWebhook /\ ~req.secret)
        => /\ status = HTTP_INTERNAL_ERROR
           /\ ~verifyAttempted
           /\ calls = <<>>
           /\ users = usersBefore

C9_Witness ==
    /\ IsWebhook /\ ~req.secret /\ ~req.sigValid
    /\ EvtType \in UpsertTypes
    /\ status = HTTP_INTERNAL_ERROR

\* C10: a verified request whose processing fails (the dispatched mutation
\* throws) is answered 400; 200 is answered only when verification and
\* processing both completed without error.
C10_ProcessingFailureIs400 ==
    /\ (Verified /\ (SomeCallThrew \/ raised # "none")) => status = HTTP_BAD_REQUEST
    /\ (IsWebhook /\ status = HTTP_OK) => (Verified /\ ~SomeCallThrew /\ raised = "none")

C10_Witness ==
    /\ Verified
    /\ SomeCallThrew
    /\ status = HTTP_BAD_REQUEST

\* no Response was built by the handler: the error left it
NoResponse == status \notin {HTTP_OK, HTTP_BAD_REQUEST, HTTP_INTERNAL_ERROR}

\* C11 (as stated): only a signature failure is turned into an HTTP status; a
\* failure raised while dispatching a verified event leaves the handler uncaught.
C11_DispatchFailurePropagates ==
    (Verified /\ raised # "none") => NoResponse

\* C11 (amended): every request the handler takes is answered with a Response,
\* and every failure raised in its try block, signature verification and
\* dispatch of a verified event alike, is answered 400.
C11_EveryFailureIs400 ==
    IsWebhook
        => /\ ~NoResponse
           /\ (raised # "none" => status = HTTP_BAD_REQUEST)
           /\ (status = HTTP_BAD_REQUEST => raised # "none")

C11_Witness ==
    /\ Verified
    /\ raised = "TypeError"
    /\ calls = <<>>
    /\ status = HTTP_BAD_REQUEST

\* the records of tbl whose clerkId is not cid, in table order
Others(tbl, cid) == SelectSeq(tbl, LAMBDA d : d.clerkId # cid)

\* C12: a verified user.deleted event for X leaves every record of another
\* clerkId unchanged; with no record for X it changes nothing and is answered 200.
C12_DeleteFrameAndNoOp ==
    (Verified /\ EvtType = "user.deleted" /\ EvtId \in ClerkIds)
        => /\ Others(users, EvtId) = Others(usersBefore, EvtId)
           /\ (ByClerkId(usersBefore, EvtId) = {}
                  => (users = usersBefore /\ status = HTTP_OK))

\* the path the last request was POSTed to
ReqPath == IF IsWebhook THEN WebhookPath ELSE req.path

\* C15: a signed user event POSTed to /clerk-users-webhook, the endpoint the
\* README names, reaches the signature-verifying handler.
C15_ReadmePathServed ==
    (req.kind # "none" /\ ReqPath = ReadmeWebhookPath) => IsWebhook

IsRead == obs.op \in ReadFns

NoUserFor(identity) == ~identity.present \/ ByClerkId(users, identity.subject) = {}

SeveralFor(identity) ==
    identity.present /\ Cardinality(ByClerkId(users, identity.subject)) > 1

NoToken(s) == s.auth = "throws" \/ s.userId = NULL \/ s.token \in {"throws", NULL}

\* C16: getAuthToken never throws: it returns undefined when there is no
\* userId, when getToken yields null and when auth() or getToken throws, and
\* the Convex JWT in every other case.
C16_GetAuthTokenNeverThrows ==
    obs.op = "getAuthToken"
        => /\ obs.result.kind # "throw"
           /\ (obs.result.kind = "undefined") = NoToken(obs.session)
           /\ (~NoToken(obs.session))
                => (obs.result.kind = "token" /\ obs.result.subject = obs.session.userId)

BothDone == conc.phase = "running" /\ \A p \in 1..2 : conc.procs[p].pc = "done"

ConcId == conc.procs[1].evt.data.id

\* the table after handling a and then b, one after the other, from db
Serial(db, a, b) == processWebhookEvent(processWebhookEvent(db, a).db, b).db.users

C17_AuthQueryMatchesManualPattern ==
    query.mounted
        => /\ query.handed = manualPattern(query.auth, query.args)
           /\ (query.handed.skip = (query.auth.isLoading \/ ~query.auth.isAuthenticated))

C17_Witness ==
    /\ query.mounted
    /\ ~query.auth.isLoading /\ query.auth.isAuthenticated
    /\ query.handed = Pass("{id: 2}")

\* the message the claim expects on the error toast of a failed call
ExpectedErrorToast(opts, e) ==
    IF opts.errorMessage # UNDEF THEN opts.errorMessage ELSE e.value

\* C19: every ended call of execute is a success or a failure, never both: when
\* the underlying call resolved it returns the result, shows a success toast
\* only if successMessage is set, calls onSuccess once and shows no error toast;
\* when it rejected it shows exactly one error toast (errorMessage if set,
\* otherwise the error's message), calls onError once, shows no success toast
\* and rethrows the original error.
C19_ExactlyOneOutcome ==
    \A i \in 1..Len(hook.execs) :
        LET e == hook.execs[i] IN
        /\ e.settled = "resolved"
             => /\ e.state = "returned" /\ e.value = "result"
                /\ e.error = <<>>
                /\ (e.success # <<>> => hook.opts.successMessage # UNDEF)
                /\ (hook.opts.onSuccess # "absent" => e.onSuccess = 1)
                /\ e.onError = 0
        /\ e.settled = "rejected"
             => /\ e.state = "threw" /\ e.value = "boom"
                /\ e.success = <<>>
                /\ e.error = <<ExpectedErrorToast(hook.opts, [value |-> "boom"])>>
                /\ (hook.opts.onError # "absent" => e.onError = 1)
                /\ e.onSuccess = 0
        /\ e.state # "pending" => ~(e.success # <<>> /\ e.error # <<>>)

\* C20: the view state of a DataTable is local to its mount: a table just
\* mounted has no sorting, no filters and every column visible, whatever view
\* the previous mount ended with; and sorting, filtering and paging never
\* change the data and columns props.
C20_ViewStateIsLocal ==
    /\ (table.mounted /\ table.fresh)
          => /\ table.view.sorting = <<>>
             /\ table.view.columnFilters = <<>>
             /\ \A c \in ColumnIds : getIsVisible(table.view.columnVisibility, c)
             /\ table.pageIndex = 0
    /\ table.mounted => (table.data = table.given.data /\ table.columns = table.given.columns)

\* a table just remounted after a mount that ended sorted, filtered and with a
\* column hidden
C20_Witness ==
    /\ table.mounted /\ table.fresh
    /\ table.previous.sorting # <<>>
    /\ table.previous.columnFilters # <<>>
    /\ ~getIsVisible(table.previous.columnVisibility, "email")

\* the non-empty space-separated words of a name
NonEmptyWords(name) == SelectSeq(split(name), LAMBDA w : w # <<>>)

\* the upper-cased first characters of the first two words
FirstTwoInitials(name) ==
    LET w == NonEmptyWords(name) IN
    IF Len(w) = 0 THEN <<>>
    ELSE IF Len(w) = 1 THEN UpperChar(w[1][1])
    ELSE UpperChar(w[1][1]) \o UpperChar(w[2][1])

\* C21: getInitials returns the upper-cased first characters of the first two
\* non-empty space-separated words of the name: at most 2 characters, exactly 1
\* for a single-word name and 0 for an empty or all-space name.
C21_InitialsOfFirstTwoWords ==
    initials.called
        => LET n == Len(NonEmptyWords(initials.name)) IN
           /\ initials.result = FirstTwoInitials(initials.name)
           /\ Len(initials.result) <= 2
           /\ (n = 1 => Len(initials.result) = 1)
           /\ (n = 0 => Len(initials.result) = 0)

\* C22: after a verified event for X has been handled, starting from the empty
\* table and handling one event at a time, a users record for X exists if and
\* only if that last event was user.created or user.updated.
C22_RecordExistsIffLastIsUpsert ==
    (Verified /\ EvtType \in UserTypes /\ EvtId \in ClerkIds)
        => ((ByClerkId(users, EvtId) # {}) <=> (EvtType \in UpsertTypes))

IsCurrent == obs.op \in {"users:current", "getCurrentUser"}

\* C23: whatever users.current (getCurrentUser) returns is null or a users
\* record whose clerkId is the caller's identity.subject, and it returns null
\* to every caller without an identity.
C23_CurrentNeverAnotherIdentity ==
    IsCurrent
        => /\ obs.kind = "user"
                => /\ obs.identity.present
                   /\ obs.user.clerkId = obs.identity.subject
                   /\ \E i \in 1..Len(users) : users[i] = obs.user
           /\ ~obs.identity.present => obs.kind = "null"

\* users.current answers a caller with its own record while the table also
\* holds a record of another identity
C23_Witness ==
    /\ obs.op = "users:current"
    /\ obs.kind = "user"
    /\ obs.user.clerkId = obs.identity.subject
    /\ \E i \in 1..Len(users) : users[i].clerkId # obs.identity.subject

IsLayout == obs.op = "DashboardLayout"

\* the session yields no token: auth() or getToken fails, or nobody is signed in
NoTokenSession(s) == s.auth = "throws" \/ s.userId = NULL \/ s.token \in {"throws", NULL}

\* C24: DashboardLayout renders the sidebar only with the user record
\* users.current returned; whenever users.current returns null (no token, a
\* session invalidated during sign-out, an identity without a record) the
\* render ends in the redirect to /sign-in, never in a thrown error.
C24_NullEndsInRedirect ==
    IsLayout
        => /\ obs.outcome = "sidebar"
                => /\ obs.current = "user"
                   /\ obs.user.clerkId = obs.session.userId
                   /\ \E i \in 1..Len(users) : users[i] = obs.user
           /\ obs.current = "null" => obs.outcome = "redirect /sign-in"
           /\ NoTokenSession(obs.session) => obs.outcome = "redirect /sign-in"
           /\ ByClerkId(users, obs.session.userId) = {} => obs.outcome = "redirect /sign-in"

\* a render for a session whose getToken fails, in the middle of sign-out, while
\* the user's record exists
C24_Witness ==
    /\ IsLayout
    /\ obs.session.userId \in ClerkIds
    /\ obs.session.token = "throws"
    /\ ByClerkId(users, obs.session.userId) # {}
    /\ obs.outcome = "redirect /sign-in"

\* the execute calls of the mounted wrapper that have not settled
InFlight == { i \in 1..Len(hook.execs) : hook.execs[i].state = "pending" }

\* C25: the isPending flag of a mounted wrapper is true exactly while at least
\* one execute call is in flight: false before the first call and after the
\* last call settled, true while any call, overlapping ones included, has not
\* settled.
C25_PendingWhileInFlight ==
    hook.wrapper # "none" => (hook.isPending <=> InFlight # {})

====
